---- MODULE Spec2Model ----
(***************************************************************************)
(* Model of src/Functions.py: custom autograd operators that carry a      *)
(* second quantity S next to the value.  Every operator is a pair of      *)
(* static methods forward(ctx, ...) / backward(ctx, ...).  The model      *)
(* keeps the context object of the latest forward call, the arguments of  *)
(* the latest call, what that call returned, and the batch-norm running   *)
(* statistics, which are tensors owned by the caller.                     *)
(*                                                                         *)
(* Numbers are exact: integers, or rationals <<n, d>> in lowest terms     *)
(* with d > 0 where the code divides.  Floating-point rounding is not     *)
(* modelled.  Python's None is the empty tuple; no tensor of the model is *)
(* empty.                                                                  *)
(***************************************************************************)
EXTENDS Integers, Sequences, FiniteSets

VARIABLES call, ctx, out, running_mean, running_var, calls

vars == <<call, ctx, out, running_mean, running_var, calls>>

(* ---------------------------- bounds ---------------------------------- *)
\* Largest entry of an input tensor (entries are 0..MaxVal).
MaxVal == 2
\* Number of elements of the tensors given to the element-wise operators.
TLen == 2
\* Largest entry of an incoming gradient tensor.
MaxGrad == 2
\* Largest magnitude of an entry given to QuantFunction.
MaxQ == 4
\* Largest number of quantisation levels exponent N.
MaxN == 2
\* Largest number of repeated calls in one behaviour.
MaxCalls == 2
\* Convolution: largest batch, output channels per group, groups, input
\* height / width, kernel size and stride.
MaxBatch == 2
MaxBlock == 2
MaxGroups == 2
MaxSize == 4
MaxKernel == 3
MaxStride == 2

Vals == 0..MaxVal

(* ------------------------- common values ------------------------------ *)
None == << >>

Raised == [raised |-> TRUE]

NoCtx == [fn |-> "none"]

NoCall == [fn |-> "none", dir |-> "none"]

Vec(n, S) == [1..n -> S]

Mat(r, c, S) == [1..r -> [1..c -> S]]

\* Entries of the S tensors and of the incoming gradients.
GradVals == 1..MaxGrad

Bools == {TRUE, FALSE}

\* the 1-D S tensors the caller passes: entries 1 or MaxGrad
SVecs(n) == Vec(n, {1, MaxGrad})

\* the 2-D S tensors the caller passes: all ones, or all MaxGrad
SMats(r, c) == Mat(r, c, {1}) \cup Mat(r, c, {MaxGrad})

\* torch.ones_like on a 1-D tensor
OnesLike1(x) == [i \in 1..Len(x) |-> 1]

\* torch.ones_like on a 2-D tensor
OnesLike2(m) == [i \in 1..Len(m) |-> [j \in 1..Len(m[i]) |-> 1]]

\* tensor * scalar, element-wise, 1-D
Scale1(x, a) == [i \in 1..Len(x) |-> x[i] * a]

(* ------------------------------ BackPool ------------------------------ *)
\* The caller issues a call: the arguments of forward(ctx, x, xS, a).  Every
\* call gets a context object of its own, empty until forward fills it.
BackPoolArgs(x, xS, a) ==
    [fn |-> "BackPool", dir |-> "args", x |-> x, xS |-> xS, a |-> a]

BackPool_forward(x, xS, a) ==
    [ctx |-> [fn |-> "BackPool", a |-> a],
     out |-> [raised |-> FALSE, output |-> x, outputS |-> xS]]

BackPool_backward_noscale(c, grad_output, grad_outputS) ==
    [raised |-> FALSE, grad_x |-> grad_output, grad_xS |-> grad_outputS,
     grad_a |-> None]

BackPool_backward(c, grad_output, grad_outputS) ==
    [raised |-> FALSE,
     grad_x |-> grad_output,
     grad_xS |-> Scale1(grad_outputS, c.a),
     grad_a |-> None]

BackPoolCall ==
    /\ call.dir # "args"
    /\ \E x \in Vec(TLen, Vals), xS \in SVecs(TLen), a \in Vals :
          call' = BackPoolArgs(x, xS, a)
    /\ ctx' = NoCtx
    /\ out' = None
    /\ UNCHANGED <<running_mean, running_var, calls>>

BackPoolForward ==
    /\ call.fn = "BackPool" /\ call.dir = "args"
    /\ LET r == BackPool_forward(call.x, call.xS, call.a) IN
        /\ call' = [call EXCEPT !.dir = "forward"]
        /\ ctx' = r.ctx
        /\ out' = r.out
        /\ UNCHANGED <<running_mean, running_var, calls>>

\* autograd runs backward on the node built by the latest forward call
BackPoolBackward ==
    /\ ctx.fn = "BackPool" /\ call.dir = "forward"
    /\ \E g \in Vec(TLen, GradVals), gS \in Vec(TLen, GradVals) :
        /\ call' = [fn |-> "BackPool", dir |-> "backward",
                    grad_output |-> g, grad_outputS |-> gS]
        /\ out' = BackPool_backward(ctx, g, gS)
        /\ UNCHANGED <<ctx, running_mean, running_var, calls>>

(* ---------------------------- TimesFunction --------------------------- *)
TimesArgs(x, xS, a) ==
    [fn |-> "Times", dir |-> "args", x |-> x, xS |-> xS, a |-> a]

Times_forward(x, xS, a) ==
    [ctx |-> [fn |-> "Times", a |-> a],
     out |-> [raised |-> FALSE, output |-> Scale1(x, a), outputS |-> OnesLike1(x)]]

Times_backward(c, grad_output, grad_outputS) ==
    [raised |-> FALSE,
     grad_x |-> Scale1(grad_output, c.a),
     grad_xS |-> Scale1(grad_output, c.a * c.a),
     grad_a |-> None]

TimesCall ==
    /\ call.dir # "args"
    /\ \E x \in Vec(TLen, Vals), xS \in SVecs(TLen), a \in Vals :
          call' = TimesArgs(x, xS, a)
    /\ ctx' = NoCtx
    /\ out' = None
    /\ UNCHANGED <<running_mean, running_var, calls>>

TimesForward ==
    /\ call.fn = "Times" /\ call.dir = "args"
    /\ LET r == Times_forward(call.x, call.xS, call.a) IN
        /\ call' = [call EXCEPT !.dir = "forward"]
        /\ ctx' = r.ctx
        /\ out' = r.out
        /\ UNCHANGED <<running_mean, running_var, calls>>

TimesBackward ==
    /\ ctx.fn = "Times" /\ call.dir = "forward"
    /\ \E g \in Vec(TLen, GradVals), gS \in Vec(TLen, GradVals) :
        /\ call' = [fn |-> "Times", dir |-> "backward",
                    grad_output |-> g, grad_outputS |-> gS]
        /\ out' = Times_backward(ctx, g, gS)
        /\ UNCHANGED <<ctx, running_mean, running_var, calls>>

(* --------------------------- SLinearFunction -------------------------- *)
\* Shape of the linear layer's tensors: input is B x In, weight is Out x In.
LinShape == [B |-> 2, In |-> 2, Out |-> 1]

\* Entries of the linear layer's value tensors.
LinVals == 1..MaxVal

Transpose(m) == [j \in 1..Len(m[1]) |-> [i \in 1..Len(m) |-> m[i][j]]]

RECURSIVE Dot(_, _, _)
\* sum over k = 1..n of u[k] * v[k]
Dot(u, v, n) == IF n = 0 THEN 0 ELSE Dot(u, v, n - 1) + u[n] * v[n]

\* A.mm(B): A is r x n, B is n x c
MatMul(A, B) ==
    LET Bt == Transpose(B) IN
    [i \in 1..Len(A) |-> [j \in 1..Len(Bt) |-> Dot(A[i], Bt[j], Len(Bt[j]))]]

\* m ** 2, element-wise
Square2(m) == [i \in 1..Len(m) |-> [j \in 1..Len(m[i]) |-> m[i][j] * m[i][j]]]

RECURSIVE ColSum(_, _, _)
\* sum over i = 1..n of m[i][j]
ColSum(m, j, n) == IF n = 0 THEN 0 ELSE ColSum(m, j, n - 1) + m[n][j]

\* m.sum(0)
Sum0(m) == [j \in 1..Len(m[1]) |-> ColSum(m, j, Len(m))]

\* F.linear(input, weight, bias) = input x weight^T (+ bias on every row)
F_linear(input, weight, bias) ==
    LET y == MatMul(input, Transpose(weight)) IN
    IF bias = None THEN y
    ELSE [i \in 1..Len(y) |-> [j \in 1..Len(y[i]) |-> y[i][j] + bias[j]]]

\* needs[k] is ctx.needs_input_grad[k-1]: whether input, inputS, weight,
\* weightS, bias require a gradient.
SLinearArgs(input, inputS, weight, weightS, bias, needs) ==
    [fn |-> "SLinear", dir |-> "args", input |-> input, inputS |-> inputS,
     weight |-> weight, weightS |-> weightS, bias |-> bias, needs |-> needs]

\* the caller picks the arguments of a linear call; a bias of None never
\* requires a gradient
SLinearPick(c) ==
    \E i \in Mat(LinShape.B, LinShape.In, LinVals),
       iS \in SMats(LinShape.B, LinShape.In),
       w \in Mat(LinShape.Out, LinShape.In, LinVals),
       wS \in SMats(LinShape.Out, LinShape.In),
       b \in {None} \cup Vec(LinShape.Out, {MaxVal}),
       n \in Vec(5, Bools) :
        /\ b = None => ~n[5]
        /\ c = SLinearArgs(i, iS, w, wS, b, n)

SLinear_forward_propagateS(input, inputS, weight, weightS, bias, needs) ==
    LET output == F_linear(input, weight, bias) IN
    [ctx |-> [fn |-> "SLinear", input |-> input, weight |-> weight, bias |-> bias,
              needs_input_grad |-> needs],
     out |-> [raised |-> FALSE, output |-> output,
              outputS |-> MatMul(inputS, Transpose(weightS))]]

SLinear_forward(input, inputS, weight, weightS, bias, needs) ==
    LET output == F_linear(input, weight, bias) IN
    [ctx |-> [fn |-> "SLinear", input |-> input, weight |-> weight, bias |-> bias,
              needs_input_grad |-> needs],
     out |-> [raised |-> FALSE, output |-> output, outputS |-> OnesLike2(output)]]

SLinear_backward_nosquare(c, grad_output, grad_outputS) ==
    [raised |-> FALSE,
     grad_input |-> IF c.needs_input_grad[1] THEN MatMul(grad_output, c.weight) ELSE None,
     grad_inputS |-> IF c.needs_input_grad[2]
                     THEN MatMul(grad_outputS, c.weight) ELSE None,
     grad_weight |-> IF c.needs_input_grad[3]
                     THEN MatMul(Transpose(grad_output), c.input) ELSE None,
     grad_weightS |-> IF c.needs_input_grad[4]
                      THEN MatMul(Transpose(grad_outputS), Square2(c.input)) ELSE None,
     grad_bias |-> IF c.bias # None /\ c.needs_input_grad[5]
                   THEN Sum0(grad_output) ELSE None]

SLinear_backward(c, grad_output, grad_outputS) ==
    [raised |-> FALSE,
     grad_input |-> IF c.needs_input_grad[1] THEN MatMul(grad_output, c.weight) ELSE None,
     grad_inputS |-> IF c.needs_input_grad[2]
                     THEN MatMul(grad_outputS, Square2(c.weight)) ELSE None,
     grad_weight |-> IF c.needs_input_grad[3]
                     THEN MatMul(Transpose(grad_output), c.input) ELSE None,
     grad_weightS |-> IF c.needs_input_grad[4]
                      THEN MatMul(Transpose(grad_outputS), Square2(c.input)) ELSE None,
     grad_bias |-> IF c.bias # None /\ c.needs_input_grad[5]
                   THEN Sum0(grad_output) ELSE None]

SLinearForward ==
    /\ call.fn = "SLinear" /\ call.dir = "args"
    /\ LET r == SLinear_forward(call.input, call.inputS, call.weight, call.weightS,
                                call.bias, call.needs) IN
        /\ call' = [call EXCEPT !.dir = "forward"]
        /\ ctx' = r.ctx
        /\ out' = r.out
        /\ UNCHANGED <<running_mean, running_var, calls>>

SLinearBackward ==
    /\ ctx.fn = "SLinear" /\ call.dir = "forward"
    /\ \E g \in Mat(LinShape.B, LinShape.Out, GradVals),
          gS \in Mat(LinShape.B, LinShape.Out, {1, MaxGrad}) :
        /\ call' = [fn |-> "SLinear", dir |-> "backward",
                    grad_output |-> g, grad_outputS |-> gS]
        /\ out' = SLinear_backward(ctx, g, gS)
        /\ UNCHANGED <<ctx, running_mean, running_var, calls>>

(* ------------------------ exact rational numbers ---------------------- *)
Abs(n) == IF n < 0 THEN -n ELSE n

RECURSIVE GCD(_, _)
GCD(a, b) == IF b = 0 THEN a ELSE GCD(b, a % b)

\* the rational n / d (d # 0) in lowest terms with a positive denominator
Rat(n, d) ==
    LET g == GCD(Abs(n), Abs(d))
        sg == IF d < 0 THEN -1 ELSE 1
    IN <<(sg * n) \div g, (sg * d) \div g>>

RInt(n) == <<n, 1>>

RAdd(p, q) == Rat(p[1] * q[2] + q[1] * p[2], p[2] * q[2])

RSub(p, q) == Rat(p[1] * q[2] - q[1] * p[2], p[2] * q[2])

RMul(p, q) == Rat(p[1] * q[1], p[2] * q[2])

\* p / q, q # 0
RDiv(p, q) == Rat(p[1] * q[2], p[2] * q[1])

RAbs(p) == <<Abs(p[1]), p[2]>>

RLeq(p, q) == p[1] * q[2] <= q[1] * p[2]

RMax(p, q) == IF RLeq(p, q) THEN q ELSE p

\* 2 ** N for an integer N >= 0
RECURSIVE Pow2(_)
Pow2(N) == IF N = 0 THEN 1 ELSE 2 * Pow2(N - 1)

\* torch.round on one element: the nearest integer, a tie going to the even one
RoundTrunc(p) == p[1] \div p[2]

Round(p) ==
    LET q == p[1] \div p[2]
        r == p[1] % p[2]
    IN IF 2 * r < p[2] THEN q
       ELSE IF 2 * r > p[2] THEN q + 1
       ELSE IF q % 2 = 0 THEN q ELSE q + 1

(* ----------------------------- QuantFunction -------------------------- *)
\* Entries of the tensor to quantise: the integers -MaxQ..MaxQ, as rationals.
QuantVals == {RInt(v) : v \in (-MaxQ)..MaxQ}

QuantArgs(N, input) == [fn |-> "Quant", dir |-> "args", N |-> N, input |-> input]

RECURSIVE AbsMax(_, _)
\* input.abs().max() over the first n elements (n >= 1)
AbsMax(x, n) == IF n = 1 THEN RAbs(x[1]) ELSE RMax(AbsMax(x, n - 1), RAbs(x[n]))

Quant_forward(N, input) ==
    LET det == RDiv(AbsMax(input, Len(input)), RInt(Pow2(N))) IN
    IF det = RInt(0) THEN input
    ELSE [i \in 1..Len(input) |-> RMul(RInt(Round(RDiv(input[i], det))), det)]

Quant_backward(grad_output) ==
    [raised |-> FALSE, grad_N |-> None, grad_input |-> grad_output]

QuantForward ==
    /\ call.fn = "Quant" /\ call.dir = "args"
    /\ call' = [call EXCEPT !.dir = "forward"]
    /\ ctx' = [fn |-> "Quant"]
    /\ out' = [raised |-> FALSE, output |-> Quant_forward(call.N, call.input)]
    /\ UNCHANGED <<running_mean, running_var, calls>>

\* the caller quantises the result once more, with the same N
QuantAgain ==
    /\ call.fn = "Quant" /\ call.dir = "forward"
    /\ calls < MaxCalls
    /\ call' = [call EXCEPT !.input = out.output]
    /\ ctx' = [fn |-> "Quant"]
    /\ out' = [raised |-> FALSE, output |-> Quant_forward(call.N, out.output)]
    /\ calls' = calls + 1
    /\ UNCHANGED <<running_mean, running_var>>

QuantBackward ==
    /\ ctx.fn = "Quant" /\ call.dir = "forward"
    /\ \E g \in Vec(TLen, GradVals) :
        /\ call' = [fn |-> "Quant", dir |-> "backward", grad_output |-> g]
        /\ out' = Quant_backward(g)
        /\ UNCHANGED <<ctx, running_mean, running_var, calls>>

(* ------------------------------ SMSEFunction -------------------------- *)
SMSEArgs(input, inputS, target, reduction) ==
    [fn |-> "SMSE", dir |-> "args", input |-> input, inputS |-> inputS,
     target |-> target, reduction |-> reduction]

RECURSIVE SqErrSum(_, _, _)
\* sum over i = 1..n of (x[i] - t[i]) ** 2
SqErrSum(x, t, n) ==
    IF n = 0 THEN 0 ELSE SqErrSum(x, t, n - 1) + (x[n] - t[n]) * (x[n] - t[n])

\* torch.nn.functional.mse_loss with size_average = reduce = None
mse_loss(input, target, reduction) ==
    IF reduction = "mean" THEN Rat(SqErrSum(input, target, Len(input)), Len(input))
    ELSE RInt(SqErrSum(input, target, Len(input)))

SMSE_forward(input, inputS, target, reduction) ==
    [ctx |-> [fn |-> "SMSE", input |-> input, target |-> target],
     out |-> [raised |-> FALSE, output |-> mse_loss(input, target, reduction)]]

SMSE_backward(c, grad_output) ==
    LET grad_input == [i \in 1..Len(c.input) |-> 2 * (c.input[i] - c.target[i])] IN
    [raised |-> FALSE,
     grad_input |-> grad_input,
     grad_inputS |-> [i \in 1..Len(grad_input) |-> 1 * 2],
     grad_target |-> None, grad_size_average |-> None, grad_reduce |-> None,
     grad_reduction |-> None]

SMSEForward ==
    /\ call.fn = "SMSE" /\ call.dir = "args"
    /\ LET r == SMSE_forward(call.input, call.inputS, call.target, call.reduction) IN
        /\ call' = [call EXCEPT !.dir = "forward"]
        /\ ctx' = r.ctx
        /\ out' = r.out
        /\ UNCHANGED <<running_mean, running_var, calls>>

\* grad_output is the gradient of the scalar loss; reduction is kept in the
\* record of the call so that the gradient can be compared with the loss.
SMSEBackward ==
    /\ ctx.fn = "SMSE" /\ call.dir = "forward"
    /\ \E g \in GradVals :
        /\ call' = [fn |-> "SMSE", dir |-> "backward", grad_output |-> g,
                    reduction |-> call.reduction]
        /\ out' = SMSE_backward(ctx, g)
        /\ UNCHANGED <<ctx, running_mean, running_var, calls>>

(* -------------------------- SBatchNorm2dFunction ---------------------- *)
\* The batch, height and width axes of an (N, C, H, W) tensor are merged into
\* one axis of P = N*H*W positions: batch norm treats them alike (it reduces
\* over dims 0, 2, 3 and broadcasts per channel).  A tensor is P x C.
BNShape == [P |-> 2, C |-> 1]

Momenta == {Rat(1, 10), Rat(1, 2)}

EpsVals == {Rat(1, 100000)}

\* num / sqrt(rad): the square root is kept symbolic
Surd(num, rad) == [num |-> num, rad |-> rad]

SBatchNormArgs(input, inputS, weight, bias, training, momentum, eps) ==
    [fn |-> "SBatchNorm2d", dir |-> "args", input |-> input, inputS |-> inputS,
     weight |-> weight, bias |-> bias, training |-> training,
     momentum |-> momentum, eps |-> eps]

\* the caller picks the arguments of a batch-norm call
SBatchNormPick(c, SInputs) ==
    \E x \in Mat(BNShape.P, BNShape.C, Vals),
       xS \in SInputs,
       w \in {None} \cup Vec(BNShape.C, {MaxVal}),
       b \in {None} \cup Vec(BNShape.C, {1}),
       t \in Bools, m \in Momenta, e \in EpsVals :
        c = SBatchNormArgs(x, xS, w, b, t, m, e)

RECURSIVE RColSum(_, _, _)
\* sum over p = 1..n of m[p][c], m a matrix of rationals
RColSum(m, c, n) == IF n = 0 THEN RInt(0) ELSE RAdd(RColSum(m, c, n - 1), m[n][c])

\* per-channel mean of the batch
BatchMean(x) == [c \in 1..Len(x[1]) |-> Rat(ColSum(x, c, Len(x)), Len(x))]

\* per-channel sum of squared deviations from the batch mean
BatchSqDev(x) ==
    LET mu == BatchMean(x)
        d == [p \in 1..Len(x) |-> [c \in 1..Len(x[1]) |->
                 RMul(RSub(RInt(x[p][c]), mu[c]), RSub(RInt(x[p][c]), mu[c]))]]
    IN [c \in 1..Len(x[1]) |-> RColSum(d, c, Len(x))]

\* the running statistic after a training step:
\* (1 - momentum) * running + momentum * batch statistic
Blend(running, stat, momentum) ==
    [c \in 1..Len(running) |->
        RAdd(RMul(RSub(RInt(1), momentum), running[c]), RMul(momentum, stat[c]))]

\* torch.nn.functional.batch_norm: the normalised output and the running
\* statistics it leaves behind (updated in place when training)
F_batch_norm_always_update(x, rm, rv, weight, bias, training, momentum, eps) ==
    LET P == Len(x)
        C == Len(x[1])
        mu == BatchMean(x)
        sq == BatchSqDev(x)
        bvar == [c \in 1..C |-> RDiv(sq[c], RInt(P))]
        uvar == [c \in 1..C |-> RDiv(sq[c], RInt(P - 1))]
        m == IF training THEN mu ELSE rm
        v == IF training THEN bvar ELSE rv
        w(c) == IF weight = None THEN RInt(1) ELSE RInt(weight[c])
        b(c) == IF bias = None THEN RInt(0) ELSE RInt(bias[c])
    IN [output |-> [p \in 1..P |-> [c \in 1..C |->
                      [num |-> RMul(RSub(RInt(x[p][c]), m[c]), w(c)),
                       rad |-> RAdd(v[c], eps),
                       add |-> b(c)]]],
        running_mean |-> Blend(rm, mu, momentum),
        running_var |-> Blend(rv, uvar, momentum)]

F_batch_norm(x, rm, rv, weight, bias, training, momentum, eps) ==
    LET P == Len(x)
        C == Len(x[1])
        mu == BatchMean(x)
        sq == BatchSqDev(x)
        bvar == [c \in 1..C |-> RDiv(sq[c], RInt(P))]
        uvar == [c \in 1..C |-> RDiv(sq[c], RInt(P - 1))]
        m == IF training THEN mu ELSE rm
        v == IF training THEN bvar ELSE rv
        w(c) == IF weight = None THEN RInt(1) ELSE RInt(weight[c])
        b(c) == IF bias = None THEN RInt(0) ELSE RInt(bias[c])
    IN [output |-> [p \in 1..P |-> [c \in 1..C |->
                      [num |-> RMul(RSub(RInt(x[p][c]), m[c]), w(c)),
                       rad |-> RAdd(v[c], eps),
                       add |-> b(c)]]],
        running_mean |-> IF training THEN Blend(rm, mu, momentum) ELSE rm,
        running_var |-> IF training THEN Blend(rv, uvar, momentum) ELSE rv]

\* forward: batch_norm runs first (line 176); building the saved tensors then
\* reads weight.device (line 177), which raises AttributeError when weight is
\* None, after the running statistics were already updated.  The saved
\* running_mean / running_var are the caller's tensors themselves.
SBatchNorm_forward(x, xS, rm, rv, weight, bias, training, momentum, eps) ==
    LET r == F_batch_norm(x, rm, rv, weight, bias, training, momentum, eps) IN
    [running_mean |-> r.running_mean,
     running_var |-> r.running_var,
     ctx |-> IF weight = None THEN NoCtx
             ELSE [fn |-> "SBatchNorm2d", input |-> x,
                   running_mean |-> r.running_mean, running_var |-> r.running_var,
                   weight |-> weight, bias |-> bias, eps |-> eps],
     out |-> IF weight = None THEN Raised
             ELSE [raised |-> FALSE, output |-> r.output,
                   outputS |-> OnesLike2(r.output)]]

SBatchNorm_backward(c, grad_output, grad_outputS) ==
    IF c.weight = None THEN Raised
    ELSE
    LET P == Len(c.input)
        C == Len(c.input[1])
        rad == [ch \in 1..C |-> RAdd(c.running_var[ch], c.eps)]
        centred == [p \in 1..P |-> [ch \in 1..C |->
                       RSub(RInt(c.input[p][ch]), c.running_mean[ch])]]
    IN [raised |-> FALSE,
        grad_input |-> [p \in 1..P |-> [ch \in 1..C |->
                          Surd(RInt(grad_output[p][ch] * c.weight[ch]), rad[ch])]],
        grad_inputS |-> [p \in 1..P |-> [ch \in 1..C |->
                          RDiv(RInt(grad_outputS[p][ch] * c.weight[ch] * c.weight[ch]),
                               rad[ch])]],
        grad_running_mean |-> None,
        grad_running_var |-> None,
        grad_weight |-> [ch \in 1..C |-> Surd(RColSum(centred, ch, P), rad[ch])],
        grad_bias |-> IF c.bias # None THEN Sum0(grad_output) ELSE None,
        grad_training |-> None, grad_momentum |-> None, grad_eps |-> None]

SBatchNormCall ==
    /\ call.dir # "args"
    /\ calls < MaxCalls
    /\ SBatchNormPick(call', Mat(BNShape.P, BNShape.C, {1}))
    /\ ctx' = NoCtx
    /\ out' = None
    /\ UNCHANGED <<running_mean, running_var, calls>>

SBatchNormForward ==
    /\ call.fn = "SBatchNorm2d" /\ call.dir = "args"
    /\ LET r == SBatchNorm_forward(call.input, call.inputS, running_mean, running_var,
                                   call.weight, call.bias, call.training,
                                   call.momentum, call.eps) IN
        /\ call' = [call EXCEPT !.dir = "forward"]
        /\ running_mean' = r.running_mean
        /\ running_var' = r.running_var
        /\ ctx' = r.ctx
        /\ out' = r.out
        /\ calls' = calls + 1

SBatchNormBackward ==
    /\ ctx.fn = "SBatchNorm2d" /\ call.dir = "forward"
    /\ \E g \in Mat(BNShape.P, BNShape.C, GradVals),
          gS \in SMats(BNShape.P, BNShape.C) :
        /\ call' = [fn |-> "SBatchNorm2d", dir |-> "backward",
                    grad_output |-> g, grad_outputS |-> gS]
        /\ out' = SBatchNorm_backward(ctx, g, gS)
        /\ UNCHANGED <<ctx, running_mean, running_var, calls>>

(* ---------------------------- SConv2dFunction ------------------------- *)
\* The claims about the convolution concern shapes and shape errors, so a
\* tensor of the convolution is modelled by its shape, a tuple of sizes; an
\* S tensor given by the caller is [shape, fill], every element being fill.
\* Kernels are square, stride and padding are pairs, dilation is the default
\* (1, 1), and groups divides both channel counts.
SConv2dArgs(bs, ic, bo, g, H, W, k, p, s0, s1, hasBias, fill) ==
    [fn |-> "SConv2d", dir |-> "args",
     input |-> <<bs, ic * g, H, W>>,
     inputS |-> [shape |-> <<bs, ic * g, H, W>>, fill |-> fill],
     weight |-> <<bo * g, ic, k, k>>,
     weightS |-> [shape |-> <<bo * g, ic, k, k>>, fill |-> fill],
     bias |-> IF hasBias THEN <<bo * g>> ELSE None,
     stride |-> <<s0, s1>>, padding |-> <<p, p>>, dilation |-> <<1, 1>>,
     groups |-> g]

\* the caller picks a configuration with padding p <= k - 1
SConv2dPick(c) ==
    \E bs \in 1..MaxBatch, ic \in {1}, bo \in 1..MaxBlock, g \in 1..MaxGroups,
       H \in 1..MaxSize, W \in 1..MaxSize, k \in 1..MaxKernel,
       s0 \in 1..MaxStride, s1 \in 1..MaxStride, hb \in Bools, f \in {1, MaxGrad} :
        \E p \in 0..(k - 1) :
            c = SConv2dArgs(bs, ic, bo, g, H, W, k, p, s0, s1, hb, f)

\* the outcome of a tensor operation that rejects its operands; no shape has a
\* negative size
ShapeError == <<-1>>

\* F.conv2d: the shape of the result, or ShapeError when the kernel does not
\* fit in the padded input or the channels do not match the groups
F_conv2d(input, weight, stride, padding, dilation, groups) ==
    LET Hp == input[3] + 2 * padding[1]
        Wp == input[4] + 2 * padding[2]
        eh == dilation[1] * (weight[3] - 1) + 1
        ew == dilation[2] * (weight[4] - 1) + 1
    IN IF \/ input[2] # weight[2] * groups
          \/ weight[1] % groups # 0
          \/ Hp < eh \/ Wp < ew
       THEN ShapeError
       ELSE <<input[1], weight[1], (Hp - eh) \div stride[1] + 1,
              (Wp - ew) \div stride[2] + 1>>

\* F.pad(t, 4 * [q]) on a 4-D tensor: q more (or, q < 0, fewer) on every side
\* of the last two axes
F_pad(t, q) ==
    IF t[3] + 2 * q < 0 \/ t[4] + 2 * q < 0 THEN ShapeError
    ELSE <<t[1], t[2], t[3] + 2 * q, t[4] + 2 * q>>

\* F.unfold(t, (k1, k2)): (bs, C * k1 * k2, L) with L the number of blocks
F_unfold(t, k1, k2) ==
    IF t = ShapeError \/ t[3] - k1 + 1 <= 0 \/ t[4] - k2 + 1 <= 0 THEN ShapeError
    ELSE <<t[1], t[2] * k1 * k2, (t[3] - k1 + 1) * (t[4] - k2 + 1)>>

\* t.transpose(1, 2) on a 3-D tensor
Transpose12(t) == IF t = ShapeError THEN ShapeError ELSE <<t[1], t[3], t[2]>>

\* a.bmm(b) and a.matmul(b) with a batched: the inner sizes must agree
Bmm(a, b) ==
    IF a = ShapeError \/ b = ShapeError THEN ShapeError
    ELSE IF Len(b) = 3
         THEN IF a[1] = b[1] /\ a[3] = b[2] THEN <<a[1], a[2], b[3]>> ELSE ShapeError
         ELSE IF a[3] = b[1] THEN <<a[1], a[2], b[2]>> ELSE ShapeError

\* F.fold(t, (o1, o2), (1, 1)): the number of blocks must be o1 * o2
F_fold(t, o1, o2) ==
    IF t = ShapeError \/ t[3] # o1 * o2 THEN ShapeError
    ELSE <<t[1], t[2], o1, o2>>

SConv2d_forward(input, inputS, weight, weightS, bias, stride, padding, dilation, groups) ==
    LET conv_out == F_conv2d(input, weight, stride, padding, dilation, groups)
        pad == padding[1]
        padded_input == F_pad(input, pad)
    IN IF conv_out = ShapeError THEN [ctx |-> NoCtx, out |-> Raised]
       ELSE [ctx |-> [fn |-> "SConv2d", stride |-> stride, groups |-> groups,
                      padded_input |-> padded_input, weight |-> weight, bias |-> bias,
                      padding |-> pad],
             out |-> [raised |-> FALSE, output |-> conv_out,
                      outputS |-> [shape |-> conv_out, fill |-> 1]]]

\* One pass of the loop over the groups (lines 131-159); every pass sees the
\* same shapes.  The result is ShapeError as soon as one tensor operation of
\* the pass rejects its operands.
SConv2d_backward_group(c, grad_output_ori) ==
    LET block_o == c.weight[1] \div c.groups
        block_i == c.weight[2]
        weight == <<block_o, c.weight[2], c.weight[3], c.weight[4]>>
        input == <<c.padded_input[1], block_i, c.padded_input[3], c.padded_input[4]>>
        grad_output == <<grad_output_ori[1], block_o, grad_output_ori[3],
                         grad_output_ori[4]>>
        kw == weight[3]
        kh == weight[4]
        col_image == Transpose12(F_unfold(input, kw, kh))
        bs == grad_output[1]
        channels == grad_output[2]
        ow == grad_output[3]
        oh == grad_output[4]
        gw2 == Bmm(<<bs, channels, ow * oh>>, col_image)
        grad_w == IF gw2 = ShapeError
                     \/ gw2[2] * gw2[3] # weight[1] * weight[2] * weight[3] * weight[4]
                  THEN ShapeError ELSE weight
        grad_output_padded == F_pad(grad_output, kw - 1 - c.padding)
        col_grad == Transpose12(F_unfold(grad_output_padded, kh, kw))
        col_flip == <<weight[2], weight[1] * weight[3] * weight[4]>>
        grad_i_this == Transpose12(Bmm(col_grad, <<col_flip[2], col_flip[1]>>))
        grad_i == F_fold(grad_i_this, ow, oh)
    IN [ok |-> grad_w # ShapeError /\ grad_i # ShapeError,
        grad_w |-> grad_w, grad_i |-> grad_i, grad_b |-> <<block_o>>]

SConv2d_backward(c, grad_output_ori, grad_outputS_ori) ==
    LET new_o == <<grad_output_ori[1], grad_output_ori[2],
                   grad_output_ori[3] * c.stride[1], grad_output_ori[4] * c.stride[2]>>
        r == SConv2d_backward_group(c, new_o)
    IN IF ~r.ok THEN Raised
       ELSE [raised |-> FALSE,
             grad_i |-> <<r.grad_i[1], r.grad_i[2] * c.groups, r.grad_i[3], r.grad_i[4]>>,
             grad_iS |-> <<r.grad_i[1], r.grad_i[2] * c.groups, r.grad_i[3], r.grad_i[4]>>,
             grad_w |-> <<r.grad_w[1] * c.groups, r.grad_w[2], r.grad_w[3], r.grad_w[4]>>,
             grad_wS |-> <<r.grad_w[1] * c.groups, r.grad_w[2], r.grad_w[3], r.grad_w[4]>>,
             grad_b |-> IF c.bias = None THEN None ELSE <<r.grad_b[1] * c.groups>>]

SConv2dForward ==
    /\ call.fn = "SConv2d" /\ call.dir = "args"
    /\ LET r == SConv2d_forward(call.input, call.inputS, call.weight, call.weightS,
                                call.bias, call.stride, call.padding, call.dilation,
                                call.groups) IN
        /\ call' = [call EXCEPT !.dir = "forward"]
        /\ ctx' = r.ctx
        /\ out' = r.out
        /\ UNCHANGED <<running_mean, running_var, calls>>

\* autograd hands backward gradients shaped like the two outputs of forward
SConv2dBackward ==
    /\ ctx.fn = "SConv2d" /\ call.dir = "forward"
    /\ call' = [fn |-> "SConv2d", dir |-> "backward", input |-> call.input,
                grad_output |-> out.output, grad_outputS |-> out.output]
    /\ out' = SConv2d_backward(ctx, out.output, out.output)
    /\ UNCHANGED <<ctx, running_mean, running_var, calls>>

(* --------------------------- specifications --------------------------- *)
Idle ==
    /\ call = NoCall
    /\ ctx = NoCtx
    /\ out = None
    /\ running_mean = None
    /\ running_var = None
    /\ calls = 0

NextPool == BackPoolCall \/ BackPoolForward \/ BackPoolBackward

SpecPool == Idle /\ [][NextPool]_vars

NextTimes == TimesCall \/ TimesForward \/ TimesBackward

SpecTimes == Idle /\ [][NextTimes]_vars

InitLinear ==
    /\ SLinearPick(call)
    /\ ctx = NoCtx
    /\ out = None
    /\ running_mean = None
    /\ running_var = None
    /\ calls = 0

NextLinear == SLinearForward \/ SLinearBackward

SpecLinear == InitLinear /\ [][NextLinear]_vars

InitQuant ==
    /\ \E N \in 0..MaxN, x \in Vec(TLen, QuantVals) : call = QuantArgs(N, x)
    /\ ctx = NoCtx
    /\ out = None
    /\ running_mean = None
    /\ running_var = None
    /\ calls = 0

NextQuant == QuantForward \/ QuantAgain \/ QuantBackward

SpecQuant == InitQuant /\ [][NextQuant]_vars

InitMSE ==
    /\ \E x \in Vec(TLen, Vals), xS \in SVecs(TLen),
          t \in Vec(TLen, Vals), r \in {"mean", "sum"} :
            call = SMSEArgs(x, xS, t, r)
    /\ ctx = NoCtx
    /\ out = None
    /\ running_mean = None
    /\ running_var = None
    /\ calls = 0

NextMSE == SMSEForward \/ SMSEBackward

SpecMSE == InitMSE /\ [][NextMSE]_vars

\* the caller's batch-norm buffers start as zeros (mean) and ones (variance)
InitBN ==
    /\ call = NoCall
    /\ ctx = NoCtx
    /\ out = None
    /\ running_mean = [c \in 1..BNShape.C |-> RInt(0)]
    /\ running_var = [c \in 1..BNShape.C |-> RInt(1)]
    /\ calls = 0

NextBN == SBatchNormCall \/ SBatchNormForward \/ SBatchNormBackward

SpecBN == InitBN /\ [][NextBN]_vars

InitConv ==
    /\ SConv2dPick(call)
    /\ ctx = NoCtx
    /\ out = None
    /\ running_mean = None
    /\ running_var = None
    /\ calls = 0

NextConv == SConv2dForward \/ SConv2dBackward

SpecConv == InitConv /\ [][NextConv]_vars

\* one forward call of any of the four layer operators
InitForward ==
    /\ ctx = NoCtx
    /\ out = None
    /\ calls = 0
    /\ \/ /\ \/ \E x \in Vec(TLen, Vals), xS \in SVecs(TLen), a \in Vals :
                    call = TimesArgs(x, xS, a)
             \/ SLinearPick(call)
             \/ SConv2dPick(call)
          /\ running_mean = None
          /\ running_var = None
       \/ /\ SBatchNormPick(call, SMats(BNShape.P, BNShape.C))
          /\ running_mean = [c \in 1..BNShape.C |-> RInt(0)]
          /\ running_var = [c \in 1..BNShape.C |-> RInt(1)]

NextForward == TimesForward \/ SLinearForward \/ SConv2dForward \/ SBatchNormForward

SpecForward == InitForward /\ [][NextForward]_vars

(* ------------------------------ claims -------------------------------- *)

\* C4 (BackPool): forward returns exactly (x, xS); the backward that follows
\* returns (grad_output, grad_outputS * a, None) with the a that the forward
\* call stored in its context; with a = 1 both gradients come back unchanged.
C4_BackPoolIdentityAndScale ==
    /\ (call.fn = "BackPool" /\ call.dir = "forward") =>
          /\ out.raised = FALSE
          /\ out.output = call.x
          /\ out.outputS = call.xS
          /\ ctx.a = call.a
    /\ (call.fn = "BackPool" /\ call.dir = "backward") =>
          /\ out.raised = FALSE
          /\ out.grad_x = call.grad_output
          /\ out.grad_xS = [i \in 1..TLen |-> call.grad_outputS[i] * ctx.a]
          /\ out.grad_a = None
          /\ (ctx.a = 1 => out.grad_xS = call.grad_outputS)

C4_Witness ==
    /\ call.fn = "BackPool" /\ call.dir = "backward"
    /\ ctx.a = 2
    /\ call.grad_outputS = <<1, 2>>
    /\ out.grad_xS = <<2, 4>>

\* C2 (TimesFunction, as claimed): backward returns grad_x = grad_output * a,
\* grad_xS = grad_outputS * a^2 and None for a.
C2_TimesBackwardUsesGradOutputS ==
    (call.fn = "Times" /\ call.dir = "backward") =>
        /\ out.grad_x = [i \in 1..TLen |-> call.grad_output[i] * ctx.a]
        /\ out.grad_xS = [i \in 1..TLen |-> call.grad_outputS[i] * ctx.a * ctx.a]
        /\ out.grad_a = None

\* C9 (SLinearFunction.backward): each of the five gradients is None when its
\* input needs no gradient (grad_bias also when bias is None); otherwise
\* grad_input = grad_output x weight, grad_inputS = grad_outputS x weight^2,
\* grad_weight = grad_output^T x input, grad_weightS = grad_outputS^T x input^2,
\* grad_bias = column sums of grad_output; every gradient has the shape of its
\* input.
C9_SLinearBackwardGradients ==
    (call.fn = "SLinear" /\ call.dir = "backward") =>
        LET g == call.grad_output
            gS == call.grad_outputS
            n == ctx.needs_input_grad
            B == LinShape.B
            I == LinShape.In
            O == LinShape.Out
            Sum(f(_), k) == LET s[m \in 0..k] == IF m = 0 THEN 0 ELSE s[m - 1] + f(m)
                            IN s[k]
            gi(b, i) == LET t(o) == g[b][o] * ctx.weight[o][i] IN Sum(t, O)
            giS(b, i) == LET t(o) == gS[b][o] * ctx.weight[o][i] * ctx.weight[o][i]
                         IN Sum(t, O)
            gw(o, i) == LET t(b) == g[b][o] * ctx.input[b][i] IN Sum(t, B)
            gwS(o, i) == LET t(b) == gS[b][o] * ctx.input[b][i] * ctx.input[b][i]
                         IN Sum(t, B)
            gb(o) == LET t(b) == g[b][o] IN Sum(t, B)
        IN
        /\ out.raised = FALSE
        /\ out.grad_input =
              IF n[1] THEN [b \in 1..B |-> [i \in 1..I |-> gi(b, i)]] ELSE None
        /\ out.grad_inputS =
              IF n[2] THEN [b \in 1..B |-> [i \in 1..I |-> giS(b, i)]] ELSE None
        /\ out.grad_weight =
              IF n[3] THEN [o \in 1..O |-> [i \in 1..I |-> gw(o, i)]] ELSE None
        /\ out.grad_weightS =
              IF n[4] THEN [o \in 1..O |-> [i \in 1..I |-> gwS(o, i)]] ELSE None
        /\ out.grad_bias =
              IF n[5] /\ ctx.bias # None THEN [o \in 1..O |-> gb(o)] ELSE None
        /\ (ctx.bias = None => out.grad_bias = None)

C9_Witness ==
    /\ call.fn = "SLinear" /\ call.dir = "backward"
    /\ ctx.needs_input_grad = <<TRUE, TRUE, TRUE, TRUE, TRUE>>
    /\ ctx.weight = <<<<2, 1>>>>
    /\ ctx.input = <<<<1, 2>>, <<2, 2>>>>
    /\ call.grad_output = <<<<1>>, <<2>>>>
    /\ call.grad_outputS = <<<<2>>, <<1>>>>
    /\ out.grad_inputS = <<<<8, 2>>, <<4, 1>>>>
    /\ out.grad_weight = <<<<5, 6>>>>
    /\ out.grad_bias = <<3>>
\* C10 (QuantFunction): with det = max|input| / 2^N, an all-zero input comes
\* back unchanged; otherwise every output element is k * det for an integer k
\* with |k| <= 2^N, lies within det / 2 of its input element, and the largest
\* magnitude is preserved; quantising the result again with the same N changes
\* nothing; backward returns (None, grad_output).
C10_QuantGridAndIdempotent ==
    /\ (call.fn = "Quant" /\ call.dir = "forward") =>
        LET x == call.input
            y == out.output
            m == CHOOSE v \in {RAbs(x[i]) : i \in 1..TLen} :
                     \A i \in 1..TLen : RLeq(RAbs(x[i]), v)
            det == RDiv(m, RInt(Pow2(call.N)))
        IN
        /\ (\A i \in 1..TLen : x[i] = RInt(0)) => y = x
        /\ m # RInt(0) =>
            /\ \A i \in 1..TLen :
                /\ \E k \in (-Pow2(call.N))..Pow2(call.N) : y[i] = RMul(RInt(k), det)
                /\ RLeq(RMul(RInt(2), RAbs(RSub(y[i], x[i]))), det)
            /\ \E i \in 1..TLen : RAbs(y[i]) = m
            /\ \A i \in 1..TLen : RLeq(RAbs(y[i]), m)
        /\ calls > 0 => y = x
    /\ (call.fn = "Quant" /\ call.dir = "backward") =>
        /\ out.grad_N = None
        /\ out.grad_input = call.grad_output

C10_Witness ==
    /\ call.fn = "Quant" /\ call.dir = "forward"
    /\ calls = 1
    /\ call.N = 1
    /\ call.input = <<RInt(3), Rat(3, 2)>>
    /\ out.output = <<RInt(3), Rat(3, 2)>>
\* C5 (SMSEFunction, as claimed): backward returns the gradient of the loss
\* that forward computed: g * 2 * (input - target) / N for reduction = 'mean'
\* over N elements, g * 2 * (input - target) for 'sum'; None for target,
\* size_average, reduce and reduction.
C5_SMSEBackwardIsLossGradient ==
    (call.fn = "SMSE" /\ call.dir = "backward") =>
        /\ \A i \in 1..TLen :
            IF call.reduction = "mean"
            THEN out.grad_input[i] * TLen
                    = call.grad_output * 2 * (ctx.input[i] - ctx.target[i])
            ELSE out.grad_input[i]
                    = call.grad_output * 2 * (ctx.input[i] - ctx.target[i])
        /\ out.grad_target = None
        /\ out.grad_size_average = None
        /\ out.grad_reduce = None
        /\ out.grad_reduction = None

\* C6 (SConv2dFunction.backward, as claimed): for every valid configuration
\* (square kernel k, padding p <= k - 1, stride >= 1, groups dividing the
\* channels, kernel fitting the padded input) backward completes and grad_i,
\* grad_iS have the shape of the unpadded input, grad_w, grad_wS that of weight.
C6_SConv2dBackwardShapes ==
    (call.fn = "SConv2d" /\ call.dir = "backward") =>
        /\ out.raised = FALSE
        /\ out.grad_i = call.input
        /\ out.grad_iS = call.input
        /\ out.grad_w = ctx.weight
        /\ out.grad_wS = ctx.weight

\* C7 (SBatchNorm2dFunction.backward, as claimed): with skr = sqrt(running_var
\* + eps), grad_input = grad_output * weight / skr, grad_inputS = grad_outputS
\* * (weight / skr)^2, grad_bias = sum of grad_output over the positions, and
\* grad_weight = sum over the positions of grad_output * (input - running_mean)
\* / skr; None for running_mean, running_var, training, momentum, eps.
C7_SBatchNormBackwardGradients ==
    (call.fn = "SBatchNorm2d" /\ call.dir = "backward" /\ ~out.raised) =>
        LET g == call.grad_output
            gS == call.grad_outputS
            P == BNShape.P
            rad(c) == RAdd(running_var[c], ctx.eps)
            term(p, c) == RMul(RInt(g[p][c]),
                               RSub(RInt(ctx.input[p][c]), running_mean[c]))
            tsum(c) == LET s[n \in 0..P] ==
                               IF n = 0 THEN RInt(0) ELSE RAdd(s[n - 1], term(n, c))
                       IN s[P]
            gsum(c) == LET s[n \in 0..P] == IF n = 0 THEN 0 ELSE s[n - 1] + g[n][c]
                       IN s[P]
        IN
        /\ \A p \in 1..P, c \in 1..BNShape.C :
            /\ out.grad_input[p][c] = [num |-> RInt(g[p][c] * ctx.weight[c]), rad |-> rad(c)]
            /\ out.grad_inputS[p][c]
                  = RDiv(RInt(gS[p][c] * ctx.weight[c] * ctx.weight[c]), rad(c))
        /\ \A c \in 1..BNShape.C :
            /\ out.grad_weight[c] = [num |-> tsum(c), rad |-> rad(c)]
            /\ ctx.bias # None => out.grad_bias[c] = gsum(c)
        /\ out.grad_running_mean = None /\ out.grad_running_var = None
        /\ out.grad_training = None /\ out.grad_momentum = None
        /\ out.grad_eps = None

\* C8 (SBatchNorm2dFunction, as claimed): weight and bias are optional: a
\* forward call with weight = None completes, the backward that follows
\* completes with grad_weight = None and the scale taken as 1; with bias =
\* None backward returns None as grad_bias.
C8_SBatchNormOptionalWeightBias ==
    /\ (call.fn = "SBatchNorm2d" /\ call.dir = "forward" /\ call.weight = None) =>
          out.raised = FALSE
    /\ (call.fn = "SBatchNorm2d" /\ call.dir = "backward") =>
          /\ out.raised = FALSE
          /\ ctx.weight = None =>
                /\ out.grad_weight = None
                /\ \A p \in 1..BNShape.P, c \in 1..BNShape.C :
                    /\ out.grad_input[p][c]
                          = [num |-> RInt(call.grad_output[p][c]),
                             rad |-> RAdd(running_var[c], ctx.eps)]
                    /\ out.grad_inputS[p][c]
                          = RDiv(RInt(call.grad_outputS[p][c]),
                                 RAdd(running_var[c], ctx.eps))
          /\ ctx.bias = None => out.grad_bias = None

\* C3 (as claimed): the S output of forward is computed from the S inputs:
\* for the call just made there is a call that differs only in the S inputs
\* and returns another S output, and for SLinearFunction outputS = inputS x
\* weightS^T.
C3_SOutputComputedFromSInputs ==
    (call.dir = "forward" /\ ~out.raised) =>
        /\ call.fn = "Times" =>
            \E xS \in SVecs(TLen) :
                Times_forward(call.x, xS, call.a).out.outputS # out.outputS
        /\ call.fn = "SLinear" =>
            out.outputS = MatMul(call.inputS, Transpose(call.weightS))
        /\ call.fn = "SConv2d" =>
            \E f \in {1, MaxGrad} :
                SConv2d_forward(call.input, [shape |-> call.input, fill |-> f],
                                call.weight, [shape |-> call.weight, fill |-> f],
                                call.bias, call.stride, call.padding, call.dilation,
                                call.groups).out.outputS # out.outputS
        /\ call.fn = "SBatchNorm2d" =>
            \E xS \in SMats(BNShape.P, BNShape.C) :
                SBatchNorm_forward(call.input, xS, running_mean, running_var, call.weight,
                                   call.bias, FALSE, call.momentum,
                                   call.eps).out.outputS # out.outputS

\* C3 (amended): the S output of forward of TimesFunction, SLinearFunction,
\* SConv2dFunction and SBatchNorm2dFunction is a tensor of ones with the shape
\* of the value output, whatever the S inputs are.
C3_SOutputIsOnes ==
    (call.dir = "forward" /\ ~out.raised) =>
        /\ call.fn = "Times" =>
            /\ out.outputS = [i \in 1..TLen |-> 1]
            /\ Len(out.output) = TLen
        /\ call.fn = "SLinear" =>
            /\ out.outputS = [b \in 1..LinShape.B |-> [o \in 1..LinShape.Out |-> 1]]
            /\ Len(out.output) = LinShape.B
            /\ \A b \in 1..LinShape.B : Len(out.output[b]) = LinShape.Out
        /\ call.fn = "SConv2d" =>
            out.outputS = [shape |-> out.output, fill |-> 1]
        /\ call.fn = "SBatchNorm2d" =>
            /\ out.outputS = [p \in 1..BNShape.P |-> [c \in 1..BNShape.C |-> 1]]
            /\ Len(out.output) = BNShape.P
            /\ \A p \in 1..BNShape.P : Len(out.output[p]) = BNShape.C

C3_Witness ==
    /\ call.fn = "SLinear" /\ call.dir = "forward"
    /\ call.inputS = <<<<2, 2>>, <<2, 2>>>>
    /\ call.weightS = <<<<2, 2>>>>
    /\ out.outputS = <<<<1>>, <<1>>>>

\* C1 (as claimed): every forward call of SBatchNorm2dFunction, training or
\* not, leaves running_mean and running_var unchanged.
C1_ForwardKeepsRunningStats ==
    [][(calls' = calls + 1 /\ call'.fn = "SBatchNorm2d") =>
          (running_mean' = running_mean /\ running_var' = running_var)]_vars

\* C1 (amended): a forward call with training = False leaves running_mean and
\* running_var unchanged (any momentum), so backward after any sequence of
\* such calls computes from the same statistics; a forward call with training
\* = True replaces them by (1 - momentum) * running + momentum * batch
\* statistic (batch mean, unbiased batch variance), also when the call then
\* raises.  The context of a completed call holds the caller's statistics.
C1_RunningStatsChangeOnlyInTraining ==
    [][(calls' = calls + 1 /\ call'.fn = "SBatchNorm2d") =>
          LET x == call'.input
              m == call'.momentum
              P == BNShape.P
              mean(c) == LET s[n \in 0..P] == IF n = 0 THEN 0 ELSE s[n - 1] + x[n][c]
                         IN Rat(s[P], P)
              dev2(p, c) == RMul(RSub(RInt(x[p][c]), mean(c)),
                                 RSub(RInt(x[p][c]), mean(c)))
              uvar(c) == LET s[n \in 0..P] ==
                                 IF n = 0 THEN RInt(0) ELSE RAdd(s[n - 1], dev2(n, c))
                         IN RDiv(s[P], RInt(P - 1))
              keep == RSub(RInt(1), m)
          IN
          /\ IF call'.training
             THEN \A c \in 1..BNShape.C :
                    /\ running_mean'[c]
                          = RAdd(RMul(keep, running_mean[c]), RMul(m, mean(c)))
                    /\ running_var'[c]
                          = RAdd(RMul(keep, running_var[c]), RMul(m, uvar(c)))
             ELSE running_mean' = running_mean /\ running_var' = running_var
          /\ ctx'.fn = "SBatchNorm2d" =>
                (ctx'.running_mean = running_mean' /\ ctx'.running_var = running_var')
      ]_vars

C1_Witness ==
    /\ call.fn = "SBatchNorm2d" /\ call.dir = "forward"
    /\ call.training = FALSE
    /\ calls = 2
    /\ running_mean # [c \in 1..BNShape.C |-> RInt(0)]
    /\ running_var # [c \in 1..BNShape.C |-> RInt(1)]
    /\ ctx.fn = "SBatchNorm2d"
====
